---- MODULE Spec2Model ----
(***************************************************************************)
(* A model of the text-classification harness: the SST and MR dataset      *)
(* loaders (text_classification/datasets), the RNFEncoder batch collator   *)
(* (text_classification/encoders) and the Optuna objective with its        *)
(* pruning callback (scripts/rnf/hyperopt.py).                             *)
(*                                                                         *)
(* Python strings are sequences of one-character strings, so that joining, *)
(* splitting and tokenizing are computed rather than assumed.  Python      *)
(* objects are records tagged with a "type" field.                         *)
(***************************************************************************)
EXTENDS Integers, Sequences, FiniteSets, TLC

VARIABLES
    \* ---- dataset loaders (SSTDataset / MRDataset) ----
    fn,         \* which loader is being called
    args,       \* its arguments
    pc,         \* position inside the loader
    tok,        \* the tokenizer object chosen from the tokenizer argument
    files,      \* the extracted files: file name -> sequence of lines
    raw,        \* what get_data_from_file returned, per file
    result,     \* the value the loader returned
    \* ---- RNFEncoder ----
    encPc, vocab, target_encoding, batch, encOut,
    \* ---- hyperopt objective / OptunaCallback ----
    tpc, fine_grained, params, wired, epoch, metric, calls, value

dataVars  == <<fn, args, pc, tok, files, raw, result>>
encVars   == <<encPc, vocab, target_encoding, batch, encOut>>
trialVars == <<tpc, fine_grained, params, wired, epoch, metric, calls, value>>
vars      == <<dataVars, encVars, trialVars>>

-----------------------------------------------------------------------------
(* Bounds *)

\* total number of lines over the files one loader call reads
MaxLines == 3

-----------------------------------------------------------------------------
(* Python values *)

NoneV == [type |-> "NoneType"]

Example(text, label) == [type |-> "Example", text |-> text, label |-> label]

\* bool(x) as used by `if x` / `if filter_func` / `if label_map`
Truthy(v) == v # NoneV

TextDataset(examples, attributes) ==
    [type |-> "TextDataset", examples |-> examples, attributes |-> attributes]

Tuple(elems) == [type |-> "tuple", elems |-> elems]

-----------------------------------------------------------------------------
(* Strings *)

Whitespace == {" ", "\n"}
Punct == {"."}

\* str.split(): cut at runs of whitespace, no empty words
RECURSIVE SplitFrom(_, _, _)
SplitFrom(s, i, cur) ==
    LET flush == IF cur = <<>> THEN <<>> ELSE <<cur>> IN
    IF i > Len(s) THEN flush
    ELSE IF s[i] \in Whitespace THEN flush \o SplitFrom(s, i + 1, <<>>)
    ELSE SplitFrom(s, i + 1, Append(cur, s[i]))

Split(s) == SplitFrom(s, 1, <<>>)

\* " ".join(words)
RECURSIVE Join(_)
Join(words) ==
    IF words = <<>> THEN <<>>
    ELSE IF Len(words) = 1 THEN words[1]
    ELSE words[1] \o <<" ">> \o Join(Tail(words))

-----------------------------------------------------------------------------
(* Tokenizers *)

\* SimpleTokenizer: white-space tokenizer
SimpleTokenize(s) == Split(s)

\* SpacyTokenizer: white-space separated words, punctuation as tokens of its own
RECURSIVE SpacyFrom(_, _, _)
SpacyFrom(s, i, cur) ==
    LET flush == IF cur = <<>> THEN <<>> ELSE <<cur>> IN
    IF i > Len(s) THEN flush
    ELSE IF s[i] \in Whitespace THEN flush \o SpacyFrom(s, i + 1, <<>>)
    ELSE IF s[i] \in Punct THEN flush \o <<(<<s[i]>>)>> \o SpacyFrom(s, i + 1, <<>>)
    ELSE SpacyFrom(s, i + 1, Append(cur, s[i]))

SpacyTokenize(s) == SpacyFrom(s, 1, <<>>)

\* a user's tokenizer: one token per non-blank character
CharTokenize(s) ==
    LET keep(c) == c \notin Whitespace
        one(c)  == <<c>>
        solid   == SelectSeq(s, keep)
    IN  [i \in 1..Len(solid) |-> one(solid[i])]

\* tokenizer objects
SpacyTok  == [type |-> "SpacyTokenizer",  base |-> TRUE]
SimpleTok == [type |-> "SimpleTokenizer", base |-> TRUE]
CustomTok == [type |-> "CharTokenizer",   base |-> TRUE]   \* subclass of BaseTokenizer
PlainFn   == [type |-> "function",        base |-> FALSE]  \* a callable, e.g. str.split
StrSpacy  == [type |-> "str", s |-> "spacy"]
StrSimple == [type |-> "str", s |-> "simple"]

TokenizerArgs == {StrSpacy, StrSimple, CustomTok, PlainFn}

\* isinstance(t, BaseTokenizer)
IsBaseTokenizer(t) == t.type # "str" /\ t.base

\* tok(text)
Tokenize(t, s) ==
    CASE t.type = "SpacyTokenizer"  -> SpacyTokenize(s)
      [] t.type = "SimpleTokenizer" -> SimpleTokenize(s)
      [] t.type = "CharTokenizer"   -> CharTokenize(s)
      [] t.type = "function"        -> Split(s)

-----------------------------------------------------------------------------
(* utils/datasets.py *)

\* nltk trees: a node carries a label and children, a leaf carries a word
Lf(w)     == [leaf |-> TRUE,  val |-> w, kids |-> <<>>]
Nd(l, ks) == [leaf |-> FALSE, val |-> l, kids |-> ks]

RECURSIVE Flatten(_)
Flatten(ss) == IF ss = <<>> THEN <<>> ELSE ss[1] \o Flatten(Tail(ss))

\* Tree.leaves(): the words, left to right
RECURSIVE Leaves(_)
Leaves(t) ==
    IF t.leaf THEN <<t.val>>
    ELSE Flatten([i \in 1..Len(t.kids) |-> Leaves(t.kids[i])])

\* Tree.subtrees(): every node, the tree itself first, in pre-order
RECURSIVE Subtrees(_)
Subtrees(t) ==
    IF t.leaf THEN <<>>
    ELSE <<t>> \o Flatten([i \in 1..Len(t.kids) |-> Subtrees(t.kids[i])])

\* parse_line_tree(line, subtrees): the [text, label] lists of one line
parse_line_tree(line, subtrees) ==
    IF subtrees
    THEN LET st == Subtrees(line) IN
         [i \in 1..Len(st) |-> <<Join(Leaves(st[i])), st[i].val>>]
    ELSE << <<Join(Leaves(line)), line.val>> >>

\* parse_line_without_label(line, label)
parse_line_without_label(line, label) == << <<Join(Split(line)), label>> >>

\* get_data_from_file(filepath, parser): exs.extend(parser(line)) for each line;
\* the parser is named by its keyword argument
ApplyParser(p, line) ==
    IF p.kind = "tree" THEN parse_line_tree(line, p.subtrees)
    ELSE parse_line_without_label(line, p.label)

RECURSIVE get_data_from_file(_, _)
get_data_from_file(lines, p) ==
    IF lines = <<>> THEN <<>>
    ELSE ApplyParser(p, lines[1]) \o get_data_from_file(Tail(lines), p)

\* the filter functions of the docstrings and of hyperopt.py
FilterFuncs == {NoneV,
                [type |-> "function", name |-> "label_eq_positive"],
                [type |-> "function", name |-> "label_ne_neutral"]}

CallFilter(f, ex) ==
    IF f.name = "label_eq_positive" THEN ex.label = "positive"
    ELSE ex.label # "neutral"

\* map_list_to_example with the filter left out: every example is returned
map_list_to_example_unfiltered(element, tokenizer, filter_func, label_map) ==
    Example(Tokenize(tokenizer, element[1]),
            IF Truthy(label_map) THEN label_map.map[element[2]] ELSE element[2])

\* map_list_to_example(element, tokenizer, filter_func, label_map)
map_list_to_example(element, tokenizer, filter_func, label_map) ==
    LET ex == Example(Tokenize(tokenizer, element[1]),
                      IF Truthy(label_map) THEN label_map.map[element[2]]
                      ELSE element[2])
    IN  IF Truthy(filter_func)
        THEN (IF CallFilter(filter_func, ex) THEN ex ELSE NoneV)
        ELSE ex

\* [x for x in map(map_f, data) if x]
RECURSIVE MapKeep(_, _, _, _)
MapKeep(data, tokenizer, filter_func, label_map) ==
    IF data = <<>> THEN <<>>
    ELSE LET x == map_list_to_example(data[1], tokenizer, filter_func, label_map) IN
         (IF Truthy(x) THEN <<x>> ELSE <<>>)
           \o MapKeep(Tail(data), tokenizer, filter_func, label_map)

-----------------------------------------------------------------------------
(* Inputs of the loaders *)

\* words
Wa  == <<"a">>
Wb  == <<"b">>
Wab == <<"a", "b">>
Dot == <<".">>

\* lines of an SST tree file, as the trees Tree.fromstring reads from them
TreeA == Nd("2", <<Lf(Wa)>>)                                   \* (2 a)
TreeB == Nd("3", <<Nd("2", <<Lf(Wab)>>), Nd("4", <<Lf(Wb)>>)>>)  \* (3 (2 ab) (4 b))
TreeC == Nd("1", <<Nd("0", <<Nd("1", <<Lf(Wb)>>), Nd("2", <<Lf(Wa)>>)>>),
                   Nd("2", <<Lf(Dot)>>)>>)                     \* (1 (0 (1 b) (2 a)) (2 .))
TreePool == {TreeA, TreeB, TreeC}

\* lines of an MR file, as read from the file (newline included)
LineA == <<"a", " ", "b", "\n">>
LineB == <<" ", "b", " ", " ", "a", ".", "\n">>
LineC == <<"\n">>
LinePool == {LineA, LineB, LineC}

SeqsUpTo(S, n) == UNION {[1..k -> S] : k \in 0..n}

SSTArgs == [train_subtrees : BOOLEAN, fine_grained : BOOLEAN,
            tokenizer : TokenizerArgs, filter_func : FilterFuncs]
MRArgs  == [tokenizer : TokenizerArgs, filter_func : FilterFuncs]

-----------------------------------------------------------------------------
(* SSTDataset *)

\* the tokenizer argument: "spacy", "simple", or a BaseTokenizer instance
SelectTokenizer(tokenizer) ==
    IF tokenizer = StrSpacy THEN SpacyTok
    ELSE IF tokenizer = StrSimple THEN SimpleTok
    ELSE IF IsBaseTokenizer(tokenizer) THEN tokenizer
    ELSE [type |-> "AssertionError"]

\* label_map of SSTDataset
SSTLabelMap(fine) ==
    LET prefix == IF fine THEN "very " ELSE "" IN
    [type |-> "dict",
     map  |-> [l \in {"0", "1", "2", "3", "4"} |->
                 CASE l = "0" -> IF fine THEN "very negative" ELSE "negative"
                   [] l = "1" -> "negative"
                   [] l = "2" -> "neutral"
                   [] l = "3" -> "positive"
                   [] l = "4" -> IF fine THEN "very positive" ELSE "positive"]]

\* parser = partial(parse_line_tree, subtrees=train_subtrees)
SSTParser(train_subtrees) == [kind |-> "tree", subtrees |-> train_subtrees]

\* tok.__str__() if isinstance(tok, BaseTokenizer) else None
TokAttr(t) == IF IsBaseTokenizer(t) THEN [type |-> "str", s |-> t.type] ELSE NoneV

SSTAttributes(a, t) ==
    [name |-> "sst", train_subtrees |-> a.train_subtrees,
     fine_grained |-> a.fine_grained, tokenizer |-> TokAttr(t)]

SST_Tokenizer ==
    /\ fn = "SSTDataset" /\ pc = "call"
    /\ LET t == SelectTokenizer(args.tokenizer) IN
       IF t.type = "AssertionError"
       THEN pc' = "AssertionError" /\ tok' = tok
       ELSE pc' = "read" /\ tok' = t
    /\ UNCHANGED <<fn, args, files, raw, result, encVars, trialVars>>

\* download_extract, then get_data_from_file on train.txt, dev.txt, test.txt
SST_Read ==
    /\ fn = "SSTDataset" /\ pc = "read"
    /\ \E tr \in SeqsUpTo(TreePool, MaxLines) :
       \E dv \in SeqsUpTo(TreePool, MaxLines - Len(tr)) :
       \E te \in SeqsUpTo(TreePool, MaxLines - Len(tr) - Len(dv)) :
         LET parser == SSTParser(args.train_subtrees) IN
         /\ files' = [train |-> tr, dev |-> dv, test |-> te]
         /\ raw' = [train |-> get_data_from_file(tr, parser),
                    val   |-> get_data_from_file(dv, parser),
                    test  |-> get_data_from_file(te, parser)]
    /\ pc' = "map"
    /\ UNCHANGED <<fn, args, tok, result, encVars, trialVars>>

SST_Return ==
    /\ fn = "SSTDataset" /\ pc = "map"
    /\ LET label_map  == SSTLabelMap(args.fine_grained)
           attributes == SSTAttributes(args, tok)
           ds(data)   == TextDataset(MapKeep(data, tok, args.filter_func, label_map),
                                     attributes)
       IN  result' = Tuple(<<ds(raw.train), ds(raw.val), ds(raw.test)>>)
    /\ pc' = "done"
    /\ UNCHANGED <<fn, args, tok, files, raw, encVars, trialVars>>

-----------------------------------------------------------------------------
(* MRDataset *)

MRParser(label) == [kind |-> "plain", label |-> label]

MRAttributes(t) == [name |-> "mr", tokenizer |-> TokAttr(t)]

MR_Tokenizer ==
    /\ fn = "MRDataset" /\ pc = "call"
    /\ LET t == SelectTokenizer(args.tokenizer) IN
       IF t.type = "AssertionError"
       THEN pc' = "AssertionError" /\ tok' = tok
       ELSE pc' = "read" /\ tok' = t
    /\ UNCHANGED <<fn, args, files, raw, result, encVars, trialVars>>

\* download_extract, then get_data_from_file on rt-polarity.pos and rt-polarity.neg
MR_Read ==
    /\ fn = "MRDataset" /\ pc = "read"
    /\ \E ps \in SeqsUpTo(LinePool, MaxLines) :
       \E ng \in SeqsUpTo(LinePool, MaxLines - Len(ps)) :
         LET pos == get_data_from_file(ps, MRParser("positive"))
             neg == get_data_from_file(ng, MRParser("negative"))
         IN  /\ files' = [pos |-> ps, neg |-> ng]
             /\ raw' = [all_examples |-> pos \o neg]
    /\ pc' = "map"
    /\ UNCHANGED <<fn, args, tok, result, encVars, trialVars>>

MR_Return ==
    /\ fn = "MRDataset" /\ pc = "map"
    /\ result' = Tuple(<<TextDataset(
                           MapKeep(raw.all_examples, tok, args.filter_func, NoneV),
                           MRAttributes(tok))>>)
    /\ pc' = "done"
    /\ UNCHANGED <<fn, args, tok, files, raw, encVars, trialVars>>

-----------------------------------------------------------------------------
(* The loaders' specification *)

EncIdle ==
    /\ encPc = "idle" /\ vocab = NoneV /\ target_encoding = NoneV
    /\ batch = <<>> /\ encOut = NoneV

TrialIdle ==
    /\ tpc = "idle" /\ fine_grained = FALSE /\ params = NoneV /\ wired = NoneV
    /\ epoch = 0 /\ metric = NoneV /\ calls = <<>> /\ value = NoneV

DataIdle ==
    /\ fn = "none" /\ args = NoneV /\ pc = "idle" /\ tok = NoneV
    /\ files = NoneV /\ raw = NoneV /\ result = NoneV

Init ==
    /\ \/ fn = "SSTDataset" /\ args \in SSTArgs
       \/ fn = "MRDataset" /\ args \in MRArgs
    /\ pc = "call"
    /\ tok = NoneV /\ files = NoneV /\ raw = NoneV /\ result = NoneV
    /\ EncIdle /\ TrialIdle

Next ==
    \/ SST_Tokenizer \/ SST_Read \/ SST_Return
    \/ MR_Tokenizer \/ MR_Read \/ MR_Return

Spec == Init /\ [][Next]_vars

-----------------------------------------------------------------------------
(* Properties of the loaders *)

\* the examples a list of parsed [text, label] elements stands for
ParsedExamples(data, label_map) ==
    [i \in 1..Len(data) |->
        Example(Tokenize(tok, data[i][1]),
                IF label_map = NoneV THEN data[i][2] ELSE label_map.map[data[i][2]])]

\* the examples a filter function accepts, in their order
KeptBy(f, exs) ==
    IF f = NoneV THEN exs ELSE SelectSeq(exs, LAMBDA e : CallFilter(f, e))

Returned(k) == result.elems[k].examples

\* C1: each returned dataset holds exactly the parsed examples (tokenized text,
\* mapped label) that filter_func accepts, in file order; with filter_func None
\* every parsed example is kept.
C1_FilterKeepsAccepted ==
    pc = "done" =>
        /\ fn = "SSTDataset" =>
             LET lm == SSTLabelMap(args.fine_grained) IN
             /\ Returned(1) = KeptBy(args.filter_func, ParsedExamples(raw.train, lm))
             /\ Returned(2) = KeptBy(args.filter_func, ParsedExamples(raw.val, lm))
             /\ Returned(3) = KeptBy(args.filter_func, ParsedExamples(raw.test, lm))
        /\ fn = "MRDataset" =>
             Returned(1) = KeptBy(args.filter_func, ParsedExamples(raw.all_examples, NoneV))

\* a filtered MR load that kept two examples out of three, and an unfiltered one
C1_Witness ==
    /\ pc = "done" /\ fn = "MRDataset"
    /\ args.filter_func # NoneV /\ args.filter_func.name = "label_eq_positive"
    /\ Len(raw.all_examples) = 3 /\ Len(Returned(1)) = 2
    /\ \A i \in 1..2 : Returned(1)[i].label = "positive"

\* C2: "spacy" selects the SpaCy tokenizer, "simple" the white-space tokenizer,
\* and any callable passed as tokenizer is used without the loader failing.
C2_AnyCallableAccepted ==
    /\ pc # "AssertionError"
    /\ pc \in {"read", "map", "done"} =>
         tok = (IF args.tokenizer = StrSpacy THEN SpacyTok
                ELSE IF args.tokenizer = StrSimple THEN SimpleTok
                ELSE args.tokenizer)

\* C3: MRDataset returns the dataset itself: one example per line of
\* rt-polarity.pos labeled "positive", then one per line of rt-polarity.neg
\* labeled "negative".
C3_MRReturnsDataset ==
    (pc = "done" /\ fn = "MRDataset" /\ args.filter_func = NoneV) =>
        /\ result.type = "TextDataset"
        /\ Len(result.examples) = Len(files.pos) + Len(files.neg)
        /\ \A i \in 1..Len(result.examples) :
             /\ result.examples[i].type = "Example"
             /\ result.examples[i].label =
                  (IF i <= Len(files.pos) THEN "positive" ELSE "negative")

RECURSIVE SumSeq(_)
SumSeq(ns) == IF ns = <<>> THEN 0 ELSE ns[1] + SumSeq(Tail(ns))

\* the number of labeled nodes of a tree
RECURSIVE CountNodes(_)
CountNodes(t) ==
    IF t.leaf THEN 0
    ELSE 1 + SumSeq([i \in 1..Len(t.kids) |-> CountNodes(t.kids[i])])

RECURSIVE CountAllNodes(_)
CountAllNodes(lines) ==
    IF lines = <<>> THEN 0 ELSE CountNodes(lines[1]) + CountAllNodes(Tail(lines))

\* the whole sentence of a tree line with its root label
SentenceExample(line) ==
    Example(Tokenize(tok, Join(Leaves(line))), SSTLabelMap(args.fine_grained).map[line.val])

\* C4: train_subtrees governs the training set only: with it the training set has
\* one example per subtree of every line of train.txt, without it one per line;
\* the validation and test sets have one example per line (whole sentence, root
\* label) whatever its value.
C4_SubtreesOnlyInTrain ==
    (pc = "done" /\ fn = "SSTDataset" /\ args.filter_func = NoneV) =>
        /\ Len(Returned(1)) = (IF args.train_subtrees THEN CountAllNodes(files.train)
                               ELSE Len(files.train))
        /\ Returned(2) = [i \in 1..Len(files.dev) |-> SentenceExample(files.dev[i])]
        /\ Returned(3) = [i \in 1..Len(files.test) |-> SentenceExample(files.test[i])]

-----------------------------------------------------------------------------
(* RNFEncoder *)

\* texts of the examples of a batch, as token lists
TextPool == {<<>>, <<"a">>, <<"b", "a">>, <<"a", "c", "b">>}
LabelPool == {"negative", "positive", "neutral"}

\* vocab.encoding: token -> id
VocabPool ==
    {[type |-> "Vocab", encoding |-> ("<pad>" :> 0 @@ "<unk>" :> 1 @@ "a" :> 2 @@ "b" :> 3)],
     [type |-> "Vocab", encoding |-> ("<pad>" :> 0 @@ "<unk>" :> 1 @@ "b" :> 2)]}

\* target_encoding: label -> class index
TargetPool ==
    {("negative" :> 0 @@ "positive" :> 1),
     ("negative" :> 1 @@ "neutral" :> 2 @@ "positive" :> 3)}

\* number of examples in a batch
MaxBatch == 2

\* dict.get(key, default)
DictGet(d, key, default) == IF key \in DOMAIN d THEN d[key] ELSE default

\* torch.Tensor(list).long(): through float32 and back to an integer
Float32ToLong(v) ==
    IF v >= -16777216 /\ v <= 16777216 THEN v
    ELSE LET q == v \div 2 IN
         IF v % 2 = 0 THEN v ELSE IF q % 2 = 0 THEN 2 * q ELSE 2 * (q + 1)

\* RNFEncoder._encode(example): (text ids, label id), or KeyError
EncodeRaises(te, example) == example.label \notin DOMAIN te

encode(v, te, example) ==
    <<[j \in 1..Len(example.text) |-> DictGet(v.encoding, example.text[j], 1)],
      te[example.label]>>

MaxOf(S) == CHOOSE m \in S : \A n \in S : n <= m

\* torch.nn.utils.rnn.pad_sequence(sequences, batch_first), padding_value 0
pad_sequence(sequences, batch_first) ==
    LET B == Len(sequences)
        T == MaxOf({Len(sequences[i]) : i \in 1..B})
        cell(i, j) == IF j <= Len(sequences[i]) THEN sequences[i][j] ELSE 0
    IN  IF batch_first
        THEN [i \in 1..B |-> [j \in 1..T |-> cell(i, j)]]
        ELSE [j \in 1..T |-> [i \in 1..B |-> cell(i, j)]]

\* the padding call with batch_first left at its default
PadCall_time_major(data) == pad_sequence(data, FALSE)

\* x = pad_sequence(data, batch_first=True)
PadCall(data) == pad_sequence(data, TRUE)

\* RNFEncoder.__call__(batch)
RNFEncoder_call ==
    /\ encPc = "call"
    /\ IF \E i \in 1..Len(batch) : EncodeRaises(target_encoding, batch[i])
       THEN encPc' = "raised" /\ encOut' = [type |-> "KeyError"]
       ELSE IF batch = <<>>
       THEN encPc' = "raised" /\ encOut' = [type |-> "IndexError"]
       ELSE LET items   == [i \in 1..Len(batch) |-> encode(vocab, target_encoding, batch[i])]
                data    == [i \in 1..Len(items) |-> items[i][1]]
                targets == [i \in 1..Len(items) |-> items[i][2]]
            IN  /\ encOut' = Tuple(<<PadCall(data),
                                     [i \in 1..Len(targets) |-> Float32ToLong(targets[i])]>>)
                /\ encPc' = "returned"
    /\ UNCHANGED <<vocab, target_encoding, batch, dataVars, trialVars>>

InitEnc ==
    /\ encPc = "call"
    /\ vocab \in VocabPool
    /\ target_encoding \in TargetPool
    /\ batch \in SeqsUpTo({Example(t, l) : t \in TextPool, l \in LabelPool}, MaxBatch)
    /\ encOut = NoneV
    /\ DataIdle /\ TrialIdle

NextEnc == RNFEncoder_call

SpecEnc == InitEnc /\ [][NextEnc]_vars

-----------------------------------------------------------------------------
(* scripts/rnf/hyperopt.py: the objective of one trial and OptunaCallback *)

\* epochs the trainer may run in the model (the script passes max_epochs=15)
MaxEpochs == 3

\* values of a loss, in the model's units
LossPool == {1, 2}

\* what the trial may answer to suggest_int(name, lo, hi) / suggest_float(name, lo, hi);
\* floats are counted in units of 0.0001
SuggestInt(lo, hi)   == {lo, (lo + hi) \div 2, hi}
SuggestFloat(lo, hi) == {lo, hi}

\* the calls the objective makes on the trial, in the order the arguments of
\* DataModule(...) and RNF(...) are evaluated
SuggestCalls ==
    << [call |-> "suggest_int",   name |-> "batch_size",    lo |-> 16,   hi |-> 64],
       [call |-> "suggest_int",   name |-> "filter_width",  lo |-> 5,    hi |-> 8],
       [call |-> "suggest_float", name |-> "embed_dropout", lo |-> 2000, hi |-> 4000],
       [call |-> "suggest_float", name |-> "dropout",       lo |-> 2000, hi |-> 4000],
       [call |-> "suggest_float", name |-> "lr",            lo |-> 1,    hi |-> 10] >>

Answers(c) == IF c.call = "suggest_int" THEN SuggestInt(c.lo, c.hi)
              ELSE SuggestFloat(c.lo, c.hi)

\* what the objective builds from the trial's answers p
Wire(fine, p) ==
    [filter_func     |-> IF ~fine THEN [type |-> "function", name |-> "label_ne_neutral"]
                         ELSE NoneV,
     target_encoding |-> ("negative" :> 0 @@ "positive" :> 1),
     datamodule      |-> [batch_size |-> p[1]],
     model           |-> [num_class |-> IF fine THEN 5 ELSE 2,
                          filter_width |-> p[2], embed_dropout |-> p[3],
                          dropout |-> p[4], lr |-> p[5]],
     trainer         |-> [callbacks |-> <<"OptunaCallback", "EarlyStopping">>,
                          monitor |-> "val_epoch_loss"]]

\* the labels the SST examples carry under the objective's filter_func
SSTLabels(fine, filter_func) ==
    {l \in {SSTLabelMap(fine).map[k] : k \in {"0", "1", "2", "3", "4"}} :
        filter_func = NoneV \/ CallFilter(filter_func, Example(<<>>, l))}

\* objective, lines 40-104: datasets, vocab, encoder, data module, model, trainer
Objective_Setup ==
    /\ tpc = "start"
    /\ \E b  \in Answers(SuggestCalls[1]), w \in Answers(SuggestCalls[2]),
          ed \in Answers(SuggestCalls[3]), d \in Answers(SuggestCalls[4]),
          lr \in Answers(SuggestCalls[5]) :
         LET p == <<b, w, ed, d, lr>> IN
         /\ params' = p
         /\ wired' = Wire(fine_grained, p)
         /\ calls' = calls \o [i \in 1..Len(SuggestCalls) |->
                                 [call |-> SuggestCalls[i].call, name |-> SuggestCalls[i].name,
                                  lo |-> SuggestCalls[i].lo, hi |-> SuggestCalls[i].hi,
                                  ret |-> p[i]]]
    /\ tpc' = "fit"
    /\ UNCHANGED <<fine_grained, epoch, metric, value, dataVars, encVars>>

\* DataModule.val_dataloader(): ValueError when the validation set is falsy
val_dataloader(val_truthy) ==
    IF ~val_truthy THEN [type |-> "ValueError"] ELSE [type |-> "DataLoader", of |-> "val"]

\* trainer.fit(model, ds.train_dataloader(), ds.val_dataloader()) is entered
Fit_Start ==
    /\ tpc = "fit"
    /\ \E val_truthy \in BOOLEAN :
         IF val_dataloader(val_truthy).type = "ValueError"
         THEN tpc' = "ValueError" /\ calls' = calls
         ELSE tpc' = "epoch" /\ calls' = Append(calls, [call |-> "fit"])
    /\ epoch' = 0
    /\ UNCHANGED <<fine_grained, params, wired, metric, value, dataVars, encVars>>

\* the trainer runs one epoch: every batch goes through the encoder (KeyError for
\* a label target_encoding lacks), then validation sets callback_metrics
Fit_Epoch ==
    /\ tpc = "epoch"
    /\ \E l \in SSTLabels(fine_grained, wired.filter_func) :
         IF EncodeRaises(wired.target_encoding, Example(<<>>, l))
         THEN tpc' = "KeyError" /\ UNCHANGED <<metric, calls>>
         ELSE \E v \in LossPool :
                /\ metric' = ("val_epoch_loss" :> v @@ "epoch" :> epoch)
                /\ calls' = Append(calls, [call |-> "epoch_end", epoch |-> epoch,
                                           val_epoch_loss |-> v])
                /\ tpc' = "on_epoch_end"
    /\ UNCHANGED <<fine_grained, params, wired, epoch, value, dataVars, encVars>>

\* on_epoch_end asking should_prune before it has reported
on_epoch_end_prune_first(metrics, current_epoch, monitor, prune) ==
    << [call |-> "should_prune", ret |-> prune] >>
    \o (IF prune THEN << [call |-> "raise TrialPruned", epoch |-> current_epoch] >>
        ELSE << [call |-> "report", value |-> DictGet(metrics, monitor, NoneV),
                 step |-> current_epoch] >>)

\* OptunaCallback.on_epoch_end: the calls it makes on the trial, given the
\* answer should_prune gives
on_epoch_end(metrics, current_epoch, monitor, prune) ==
    << [call |-> "report", value |-> DictGet(metrics, monitor, NoneV),
        step |-> current_epoch],
       [call |-> "should_prune", ret |-> prune] >>
    \o (IF prune THEN << [call |-> "raise TrialPruned", epoch |-> current_epoch] >>
        ELSE <<>>)

OnEpochEnd ==
    /\ tpc = "on_epoch_end"
    /\ \E prune \in BOOLEAN :
         /\ calls' = calls \o on_epoch_end(metric, epoch, wired.trainer.monitor, prune)
         /\ tpc' = IF prune THEN "pruned" ELSE "callbacks_done"
    /\ UNCHANGED <<fine_grained, params, wired, epoch, metric, value, dataVars, encVars>>

\* after the callbacks: early stopping or the last epoch end fit, else the next epoch
Fit_Continue ==
    /\ tpc = "callbacks_done"
    /\ epoch + 1 < MaxEpochs
    /\ epoch' = epoch + 1
    /\ tpc' = "epoch"
    /\ UNCHANGED <<fine_grained, params, wired, metric, calls, value, dataVars, encVars>>

Fit_Return ==
    /\ tpc = "callbacks_done"
    /\ calls' = Append(calls, [call |-> "fit returns"])
    /\ tpc' = "test"
    /\ UNCHANGED <<fine_grained, params, wired, epoch, metric, value, dataVars, encVars>>

\* the objective returning the loss without loading the best checkpoint
after_fit_last_weights(results) ==
    [calls |-> << [call |-> "test", dataloader |-> "val",
                   ckpt_path |-> "None", results |-> results] >>,
     ret   |-> results["test_epoch_loss"]]

\* the objective after fit: the calls it makes and the value it returns, given
\* the results dict of trainer.test
after_fit(results) ==
    [calls |-> << [call |-> "test", dataloader |-> "val",
                   ckpt_path |-> "best_model_path", results |-> results] >>,
     ret   |-> results["test_epoch_loss"]]

Objective_Test ==
    /\ tpc = "test"
    /\ \E loss \in LossPool :
         LET r == after_fit(("test_epoch_loss" :> loss)) IN
         /\ calls' = calls \o r.calls
         /\ value' = [type |-> "float", v |-> r.ret]
    /\ tpc' = "returned"
    /\ UNCHANGED <<fine_grained, params, wired, epoch, metric, dataVars, encVars>>

InitTrial ==
    /\ tpc = "start" /\ fine_grained \in BOOLEAN
    /\ params = NoneV /\ wired = NoneV /\ epoch = 0 /\ metric = NoneV
    /\ calls = <<>> /\ value = NoneV
    /\ DataIdle /\ EncIdle

NextTrial ==
    \/ Objective_Setup \/ Fit_Start \/ Fit_Epoch \/ OnEpochEnd
    \/ Fit_Continue \/ Fit_Return \/ Objective_Test

SpecTrial == InitTrial /\ [][NextTrial]_vars

-----------------------------------------------------------------------------
(* Properties of the trial *)

Idx(name) == {i \in 1..Len(calls) : calls[i].call = name}

\* C6: at the end of every epoch the callback first reports the monitored metric's
\* current value with step = the epoch number and only then asks should_prune;
\* TrialPruned is raised exactly when should_prune answers true; after a pruning
\* no metric is reported any more; steps are reported in increasing order.
C6_ReportThenPrune ==
    /\ \A i \in Idx("epoch_end") :
         i < Len(calls) =>
           /\ calls[i + 1].call = "report"
           /\ calls[i + 1].step = calls[i].epoch
           /\ calls[i + 1].value = calls[i].val_epoch_loss
    /\ \A i \in Idx("report") :
         /\ i > 1 /\ calls[i - 1].call = "epoch_end"
         /\ i < Len(calls) /\ calls[i + 1].call = "should_prune"
    /\ \A i \in Idx("should_prune") :
         /\ calls[i - 1].call = "report"
         /\ calls[i].ret <=> (i < Len(calls) /\ calls[i + 1].call = "raise TrialPruned")
    /\ \A i \in Idx("raise TrialPruned") :
         /\ calls[i - 1].call = "should_prune" /\ calls[i - 1].ret
         /\ calls[i].epoch = calls[i - 2].step
         /\ i = Len(calls)
    /\ (tpc = "pruned") <=> (Idx("raise TrialPruned") # {})
    /\ \A i, j \in Idx("report") : i < j => calls[i].step < calls[j].step

\* a trial pruned at its second epoch, after an unpruned first one
C6_Witness ==
    /\ tpc = "pruned"
    /\ Cardinality(Idx("report")) = 2
    /\ epoch = 1
    /\ \E i, j \in Idx("report") : calls[i].value # calls[j].value

\* C7: the suggested hyperparameters (batch_size in 16..64, filter_width in 5..8,
\* embed_dropout, dropout, lr) are wired into the data module and the model; test
\* is called only after fit has finished, with the best checkpoint, and its loss
\* is the trial's value; a trial pruned during fit never calls test and has no value.
C7_FitThenTest ==
    /\ tpc # "start" =>
         /\ Len(calls) >= 5
         /\ [i \in 1..5 |-> calls[i].name] =
              <<"batch_size", "filter_width", "embed_dropout", "dropout", "lr">>
         /\ calls[1].lo = 16 /\ calls[1].hi = 64 /\ calls[2].lo = 5 /\ calls[2].hi = 8
         /\ \A i \in 1..5 : calls[i].lo <= calls[i].ret /\ calls[i].ret <= calls[i].hi
         /\ wired.datamodule.batch_size = calls[1].ret
         /\ wired.model.filter_width = calls[2].ret
         /\ wired.model.embed_dropout = calls[3].ret
         /\ wired.model.dropout = calls[4].ret
         /\ wired.model.lr = calls[5].ret
    /\ \A i \in Idx("test") :
         /\ calls[i - 1].call = "fit returns"
         /\ \E k \in Idx("fit") : k < i - 1
         /\ calls[i].ckpt_path = "best_model_path"
         /\ i = Len(calls)
         /\ tpc = "returned"
    /\ Cardinality(Idx("fit")) <= 1
    /\ tpc = "returned" =>
         /\ Idx("test") # {}
         /\ value = [type |-> "float", v |-> calls[Len(calls)].results["test_epoch_loss"]]
    /\ tpc # "returned" => value = NoneV
    /\ tpc = "pruned" => Idx("test") = {} /\ Idx("fit returns") = {}

\* a trial that ran two epochs, finished fit, tested and returned the test loss
C7_Witness ==
    /\ tpc = "returned" /\ epoch = 1
    /\ value.v = 2
    /\ wired.datamodule.batch_size = 40 /\ wired.model.filter_width = 8
    /\ wired.model.embed_dropout # wired.model.dropout

====
